---- MODULE Spec2Model ----
(***************************************************************************)
(* A model of the forecasting services of bvp:                             *)
(*   - create_forecasting_jobs   (bvp/data/services/forecasting.py)        *)
(*   - make_forecasts            (bvp/data/services/forecasting.py)        *)
(*   - check_data_availability   (bvp/data/models/forecasting/utils.py)    *)
(*   - create_beliefs_query, add_user_source_filter, add_horizon_filter   *)
(*                               (bvp/data/queries/utils.py)               *)
(*   - create_lags, get_query_window (bvp/data/models/forecasting/utils.py)*)
(*                                                                         *)
(* Datetimes and timedeltas are integers counted in steps of five minutes. *)
(* An Optional value is a set with at most one element: None is the empty  *)
(* set and a given value x is {x}.                                         *)
(***************************************************************************)
EXTENDS Integers, Sequences, FiniteSets, TLC

VARIABLES
    \* --- create_forecasting_jobs ---
    redis_queue,     \* current_app.redis_queue: the sequence of enqueued jobs
    queue_before,    \* the queue as it was when create_forecasting_jobs was called
    cfj_args,        \* the arguments of the call (a set: empty before the call)
    cfj_jobs,        \* the list the call returned (jobs created so far if it raised)
    cfj_result,      \* "none" before the call, then "returned" or "Exception"
    \* --- the database and the sessions of the workers running make_forecasts ---
    bvp_mode,        \* current_app.config["BVP_MODE"]
    data_sources,    \* the committed rows of the DataSource table
    timed_values,    \* the committed rows of the Power, Price and Weather tables
    workers,         \* the workers that take jobs
    session_sources, \* per worker: the DataSource objects its session added
    session_values,  \* per worker: the timed values its open transaction wrote
    mf_pc,           \* per worker: its position in make_forecasts
    mf_job,          \* per worker: the kwargs of its job (Optional)
    mf_source,       \* per worker: the label of the data_source object it holds (Optional)
    mf_built,        \* per worker: whether the model was built and forecasts were made
    mf_forecasts,    \* per worker: ts_value_forecasts
    mf_calls,        \* per worker: the saves and rollbacks made and the IntegrityErrors caught
    mf_result,       \* per worker: "none", "returned" or the exception that left make_forecasts
    values_before,   \* per worker: the timed values its session saw when the job started
    \* --- check_data_availability ---
    cda_args,        \* the arguments of the call (Optional)
    cda_result,      \* "none" before the call, then "returned" or the check that raised
    cda_suggested,   \* the start or end date the exception suggests (Optional)
    cda_before,      \* the stored timed values when the function was called
    \* --- the query filters ---
    flt_call,        \* the filter called and its arguments (Optional)
    flt_query,       \* the rows the query selected before the filter was added
    flt_result,      \* the rows the returned query selects
    \* --- create_lags and get_query_window ---
    lags_args,       \* the arguments of create_lags (Optional)
    lags_list,       \* the list create_lags returned
    window_args,     \* the training_start and end given to get_query_window (Optional)
    query_window     \* the window get_query_window returned (Optional)

varsJobs == <<redis_queue, queue_before, cfj_args, cfj_jobs, cfj_result>>

varsDb == <<bvp_mode, data_sources, timed_values, workers>>

varsForecast == <<session_sources, session_values, mf_pc, mf_job, mf_source, mf_built,
                  mf_forecasts, mf_calls, mf_result, values_before>>

varsCheck == <<cda_args, cda_result, cda_suggested, cda_before>>

varsFilter == <<flt_call, flt_query, flt_result>>

varsLags == <<lags_args, lags_list, window_args, query_window>>

vars == <<varsJobs, varsDb, varsForecast, varsCheck, varsFilter, varsLags>>

None == {}
Some(x) == {x}
The(o) == CHOOSE x \in o : TRUE

-----------------------------------------------------------------------------
(* The records of the model.  Each lists its fields in one common order. *)

\* Job.create(make_forecasts, kwargs=dict(...)): the job and its kwargs
JobCreate(asset_id, timed_value_type, horizon, start, end, custom_model_params) ==
    [asset_id |-> asset_id,
     timed_value_type |-> timed_value_type,
     horizon |-> horizon,
     start |-> start,
     end |-> end,
     custom_model_params |-> custom_model_params,
     func |-> "make_forecasts"]

\* the arguments of a call of create_forecasting_jobs
CfjArgs(asset_id, timed_value_type, custom_model_params, resolution, start_of_roll, end_of_roll, horizons, enqueue) ==
    [asset_id |-> asset_id,
     timed_value_type |-> timed_value_type,
     custom_model_params |-> custom_model_params,
     resolution |-> resolution,
     start_of_roll |-> start_of_roll,
     end_of_roll |-> end_of_roll,
     horizons |-> horizons,
     enqueue |-> enqueue]

\* a row of the Power, Price or Weather table (timed_value_type names the table,
\* asset_id is its asset_id, market_id or sensor_id)
TimedValue(asset_id, timed_value_type, horizon, datetime, value, data_source_id) ==
    [asset_id |-> asset_id,
     timed_value_type |-> timed_value_type,
     horizon |-> horizon,
     datetime |-> datetime,
     value |-> value,
     data_source_id |-> data_source_id]

\* a row of the DataSource table; id is None until the row is inserted
DataSource(id, label, type) == [id |-> id, label |-> label, type |-> type]

Workers == {1, 2}

\* the parts of the state a specification does not use
NoJobs ==
    /\ redis_queue = <<>>
    /\ queue_before = <<>>
    /\ cfj_args = None
    /\ cfj_jobs = <<>>
    /\ cfj_result = "none"

NoDb ==
    /\ bvp_mode = ""
    /\ data_sources = {}
    /\ timed_values = {}
    /\ workers = {}

NoForecast ==
    /\ session_sources = [w \in Workers |-> {}]
    /\ session_values = [w \in Workers |-> {}]
    /\ mf_pc = [w \in Workers |-> "idle"]
    /\ mf_job = [w \in Workers |-> None]
    /\ mf_source = [w \in Workers |-> None]
    /\ mf_built = [w \in Workers |-> FALSE]
    /\ mf_forecasts = [w \in Workers |-> <<>>]
    /\ mf_calls = [w \in Workers |-> <<>>]
    /\ mf_result = [w \in Workers |-> "none"]
    /\ values_before = [w \in Workers |-> {}]

NoCheck ==
    /\ cda_args = None
    /\ cda_result = "none"
    /\ cda_suggested = None
    /\ cda_before = {}

NoFilter ==
    /\ flt_call = None
    /\ flt_query = {}
    /\ flt_result = {}

NoLags ==
    /\ lags_args = None
    /\ lags_list = <<>>
    /\ window_args = None
    /\ query_window = None

-----------------------------------------------------------------------------
(* Bounds of the model *)

\* the longest list of horizons passed to create_forecasting_jobs
MaxHorizons == 2
\* start_of_roll ranges over 0..MaxStart
MaxStart == 1
\* end_of_roll - start_of_roll ranges over 1..MaxRoll
MaxRoll == 2

\* timedelta values used as horizons (negative: backwards forecasting)
Horizons == {-1, 1, 4}

\* all sequences over S of length at most n
RECURSIVE SeqsUpTo(_, _)
SeqsUpTo(S, n) ==
    IF n = 0 THEN {<<>>}
    ELSE LET shorter == SeqsUpTo(S, n - 1)
         IN  shorter \cup {Append(s, x) : s \in {t \in shorter : Len(t) = n - 1}, x \in S}

-----------------------------------------------------------------------------
(* create_forecasting_jobs *)

\* the horizon lists forecast_horizons_for(resolution) may return
forecast_horizons_for(resolution) == SeqsUpTo(Horizons, MaxHorizons)

\* neither horizons nor resolution is given
HorizonsMissingMut(a) == a.horizons = None /\ a.resolution = None /\ ~a.enqueue

HorizonsMissing(a) == a.horizons = None /\ a.resolution = None

\* the body of the loop for one horizon: create the job with its window
LoopJobMutEnd(a, horizon) ==
    JobCreate(a.asset_id, a.timed_value_type, horizon,
              a.start_of_roll + horizon, a.end_of_roll,
              a.custom_model_params)

LoopJob(a, horizon) ==
    JobCreate(a.asset_id, a.timed_value_type, horizon,
              a.start_of_roll + horizon, a.end_of_roll + horizon,
              a.custom_model_params)

\* the loop over the horizons: the pair <<jobs, queue>> after the first n horizons
RECURSIVE LoopJobsMutEnqueue(_, _, _, _)
LoopJobsMutEnqueue(a, horizons, q, n) ==
    IF n = 0 THEN <<(<<>>), q>>
    ELSE LET prev == LoopJobsMutEnqueue(a, horizons, q, n - 1)
             job == LoopJob(a, horizons[n])
         IN  <<Append(prev[1], job), Append(prev[2], job)>>

RECURSIVE LoopJobs(_, _, _, _)
LoopJobs(a, horizons, q, n) ==
    IF n = 0 THEN <<(<<>>), q>>
    ELSE LET prev == LoopJobs(a, horizons, q, n - 1)
             job == LoopJob(a, horizons[n])
         IN  <<Append(prev[1], job),
               IF a.enqueue THEN Append(prev[2], job) ELSE prev[2]>>

\* a job that was enqueued by an earlier call
OldJob == JobCreate(1, "Power", 1, 0, 1, "None")

create_forecasting_jobs(a) ==
    /\ cfj_result = "none"
    /\ cfj_args' = Some(a)
    /\ queue_before' = redis_queue
    /\ IF HorizonsMissing(a)
       THEN /\ cfj_result' = "Exception"
            /\ cfj_jobs' = <<>>
            /\ UNCHANGED redis_queue
       ELSE \E horizons \in (IF a.horizons = None
                             THEN forecast_horizons_for(a.resolution)
                             ELSE {The(a.horizons)}) :
               LET r == LoopJobs(a, horizons, redis_queue, Len(horizons))
               IN  /\ cfj_jobs' = r[1]
                   /\ redis_queue' = r[2]
                   /\ cfj_result' = "returned"
    /\ UNCHANGED <<varsDb, varsForecast, varsCheck, varsFilter, varsLags>>

InitJobs ==
    /\ redis_queue \in {<<>>, <<OldJob>>}
    /\ queue_before = redis_queue
    /\ cfj_args = None
    /\ cfj_jobs = <<>>
    /\ cfj_result = "none"
    /\ NoDb
    /\ NoForecast
    /\ NoCheck
    /\ NoFilter
    /\ NoLags

NextJobs ==
    \E timed_value_type \in {"Power", "Price"}, asset_id \in {1, 2},
       start_of_roll \in 0..MaxStart, roll \in 1..MaxRoll,
       resolution \in {None, Some(1)},
       horizons \in {None} \cup {Some(hs) : hs \in SeqsUpTo(Horizons, MaxHorizons)},
       custom_model_params \in {"None", "params"}, enqueue \in BOOLEAN :
        create_forecasting_jobs(
            CfjArgs(asset_id, timed_value_type, custom_model_params, resolution,
                    start_of_roll, start_of_roll + roll, horizons, enqueue))

SpecJobs == InitJobs /\ [][NextJobs]_vars

-----------------------------------------------------------------------------
(* The database as a session sees it *)

\* timedelta(minutes=15), in steps of five minutes
FifteenMinutes == 3

\* the most forecasts one job makes: end - start is at most MaxForecasts quarter-hours
MaxForecasts == 2

data_source_label == "forecast by Seita"

\* the rows of the Asset and Market tables: <<timed value type, id>>
ExistingAssets == {<<"Power", 1>>, <<"Price", 1>>}

\* supported_horizons(): 1, 6, 24 and 48 hours
supported_horizons == {12, 72, 288, 576}

\* the values the forecasting model may predict
ForecastValues == {10, 20}

make_timed_valueMut(timed_value_type, asset_id, dt, value, horizon, data_source_id) ==
    TimedValue(asset_id, timed_value_type, 0, dt, value, data_source_id)

make_timed_value(timed_value_type, asset_id, dt, value, horizon, data_source_id) ==
    TimedValue(asset_id, timed_value_type, horizon, dt, value, data_source_id)

\* the primary key of a timed value
Key(r) == <<r.timed_value_type, r.asset_id, r.datetime, r.horizon, r.data_source_id>>

Keys(rows) == {Key(r) : r \in rows}

\* rows with the rows of `written` put over them
Over(rows, written) == {r \in rows : Key(r) \notin Keys(written)} \cup written

\* the timed values worker w's session sees: the committed rows and what its
\* open transaction wrote
View(w) == Over(timed_values, session_values[w])

\* the data sources worker w's session sees
SourcesSeen(w) == data_sources \cup session_sources[w]

Max(S) == CHOOSE x \in S : \A y \in S : y <= x
Min(S) == CHOOSE x \in S : \A y \in S : x <= y

\* the next value of the sequence behind DataSource.id
NextId ==
    LET used == UNION {d.id : d \in data_sources \cup UNION {session_sources[w] : w \in Workers}}
    IN  IF used = {} THEN 1 ELSE Max(used) + 1

\* session.flush(): a pending DataSource is inserted and gets its id
Flushed(d) == IF d.id = None THEN DataSource(Some(NextId), d.label, d.type) ELSE d

\* save_to_database(objects): the index of the first object whose key is taken
\* (by a row the session sees or by an earlier object), 0 when there is none
FirstConflict(rows, objects) ==
    LET taken(i) == Keys(rows) \cup {Key(objects[j]) : j \in 1..(i - 1)}
        bad == {i \in 1..Len(objects) : Key(objects[i]) \in taken(i)}
    IN  IF bad = {} THEN 0 ELSE Min(bad)

\* the first n objects of a list, as rows
Rows(objects, n) == {objects[i] : i \in 1..n}

\* save_to_database(objects, overwrite=True): each of the first n objects merged
RECURSIVE Merged(_, _, _)
Merged(written, objects, n) ==
    IF n = 0 THEN written
    ELSE Over(Merged(written, objects, n - 1), {objects[n]})

\* a row refers to a data source the session does not see
DanglingSource(w, objects) ==
    \E i \in 1..Len(objects) :
        objects[i].data_source_id \notin UNION {d.id : d \in SourcesSeen(w)}

\* an INSERT of a key that the open transaction of another session has written
\* waits until that transaction has ended
Blocked(w, objects) ==
    \E v \in Workers \ {w} :
        Keys(session_values[v]) \cap {Key(objects[i]) : i \in 1..Len(objects)} # {}

-----------------------------------------------------------------------------
(* make_forecasts, run by worker w *)

Job(w) == The(mf_job[w])

\* a worker takes a job from the queue and calls make_forecasts with its kwargs
StartJob(w, job) ==
    /\ w \in workers
    /\ mf_pc[w] = "idle"
    /\ mf_result[w] = "none"
    /\ mf_job' = [mf_job EXCEPT ![w] = Some(job)]
    /\ values_before' = [values_before EXCEPT ![w] = View(w)]
    /\ mf_pc' = [mf_pc EXCEPT ![w] = "get_data_source"]
    /\ UNCHANGED <<varsLags, varsJobs, varsCheck, varsFilter, varsDb, session_sources, session_values, mf_source,
                   mf_built, mf_forecasts, mf_calls, mf_result>>

\* data_source = get_data_source()
get_data_source(w) ==
    /\ mf_pc[w] = "get_data_source"
    /\ LET found == {d \in SourcesSeen(w) : d.label = data_source_label}
       IN  IF Cardinality(found) > 1
           THEN \* one_or_none() raises
                /\ mf_result' = [mf_result EXCEPT ![w] = "MultipleResultsFound"]
                /\ mf_pc' = [mf_pc EXCEPT ![w] = "done"]
                /\ UNCHANGED <<session_sources, mf_source>>
           ELSE IF found = {}
           THEN LET new == DataSource(None, data_source_label, "script")
                IN  /\ session_sources' = [session_sources EXCEPT ![w] = @ \cup {new}]
                    /\ mf_source' = [mf_source EXCEPT ![w] = Some(new)]
                    /\ mf_pc' = [mf_pc EXCEPT ![w] = "get_asset"]
                    /\ UNCHANGED mf_result
           ELSE /\ mf_source' = [mf_source EXCEPT ![w] = found]
                /\ mf_pc' = [mf_pc EXCEPT ![w] = "get_asset"]
                /\ UNCHANGED <<session_sources, mf_result>>
    /\ UNCHANGED <<varsLags, varsJobs, varsCheck, varsFilter, varsDb, session_values, mf_job, mf_built, mf_forecasts,
                   mf_calls, values_before>>

\* horizon in supported_horizons()
HorizonSupportedMut(horizon) == TRUE

HorizonSupported(horizon) == horizon \in supported_horizons

\* asset = get_asset(asset_id, timed_value_type), then the check of the horizon
get_asset(w) ==
    /\ mf_pc[w] = "get_asset"
    /\ IF Job(w).timed_value_type \notin {"Power", "Price", "Weather"}
       THEN /\ mf_result' = [mf_result EXCEPT ![w] = "Exception"]
            /\ mf_pc' = [mf_pc EXCEPT ![w] = "done"]
            /\ UNCHANGED <<session_sources, mf_source>>
       ELSE \* the query flushes the session first
            /\ session_sources' = [session_sources EXCEPT ![w] = {Flushed(d) : d \in @}]
            /\ mf_source' = [mf_source EXCEPT ![w] = {Flushed(d) : d \in @}]
            /\ IF <<Job(w).timed_value_type, Job(w).asset_id>> \notin ExistingAssets
               THEN /\ mf_result' = [mf_result EXCEPT ![w] = "Exception"]
                    /\ mf_pc' = [mf_pc EXCEPT ![w] = "done"]
               ELSE IF ~HorizonSupported(Job(w).horizon)
               THEN /\ mf_result' = [mf_result EXCEPT ![w] = "InvalidHorizonException"]
                    /\ mf_pc' = [mf_pc EXCEPT ![w] = "done"]
               ELSE /\ mf_pc' = [mf_pc EXCEPT ![w] = "make_rolling_forecasts"]
                    /\ UNCHANGED mf_result
    /\ UNCHANGED <<varsLags, varsJobs, varsCheck, varsFilter, varsDb, session_values, mf_job, mf_built, mf_forecasts,
                   mf_calls, values_before>>

\* the datetimes make_rolling_forecasts forecasts: every quarter-hour from start up to end
ForecastTimes(start, end) ==
    {start + k * FifteenMinutes : k \in 0..MaxForecasts} \cap start..(end - 1)

\* the datetimes in ascending order
RECURSIVE SortedSeq(_)
SortedSeq(S) == IF S = {} THEN <<>> ELSE <<Min(S)>> \o SortedSeq(S \ {Min(S)})

\* latest_generic_model and make_rolling_forecasts, then the list of timed values;
\* either of the two calls may raise instead (not enough data)
make_rolling_forecasts(w) ==
    /\ mf_pc[w] = "make_rolling_forecasts"
    /\ \/ /\ mf_result' = [mf_result EXCEPT ![w] = "NotEnoughDataException"]
          /\ mf_pc' = [mf_pc EXCEPT ![w] = "done"]
          /\ UNCHANGED <<mf_built, mf_forecasts>>
       \/ LET dts == SortedSeq(ForecastTimes(Job(w).start, Job(w).end))
          IN  \E values \in [1..Len(dts) -> ForecastValues] :
                /\ mf_built' = [mf_built EXCEPT ![w] = TRUE]
                /\ mf_forecasts' = [mf_forecasts EXCEPT ![w] =
                      [i \in 1..Len(dts) |->
                         make_timed_value(Job(w).timed_value_type, Job(w).asset_id,
                                          dts[i], values[i], Job(w).horizon,
                                          The(The(mf_source[w]).id))]]
                /\ mf_pc' = [mf_pc EXCEPT ![w] = "save"]
                /\ UNCHANGED mf_result
    /\ UNCHANGED <<varsLags, varsJobs, varsCheck, varsFilter, varsDb, session_sources, session_values, mf_job, mf_source,
                   mf_calls, values_before>>

\* try: save_to_database(ts_value_forecasts); db.session.flush()
save_forecasts(w) ==
    /\ mf_pc[w] = "save"
    /\ ~Blocked(w, mf_forecasts[w])
    /\ LET objects == mf_forecasts[w]
           c == FirstConflict(View(w), objects)
       IN  IF c = 0
           THEN /\ session_values' = [session_values EXCEPT ![w] = @ \cup Rows(objects, Len(objects))]
                /\ mf_calls' = [mf_calls EXCEPT ![w] = Append(@, "save")]
                /\ mf_result' = [mf_result EXCEPT ![w] = "returned"]
                /\ mf_pc' = [mf_pc EXCEPT ![w] = "done"]
           ELSE \* IntegrityError: the rows before the conflict are in the failed transaction
                /\ session_values' = [session_values EXCEPT ![w] = @ \cup Rows(objects, c - 1)]
                /\ mf_calls' = [mf_calls EXCEPT ![w] = @ \o <<"save", "IntegrityError">>]
                /\ mf_pc' = [mf_pc EXCEPT ![w] = "rollback"]
                /\ UNCHANGED mf_result
    /\ UNCHANGED <<varsLags, varsJobs, varsCheck, varsFilter, varsDb, session_sources, mf_job, mf_source, mf_built,
                   mf_forecasts, values_before>>

\* if current_app.config.get("BVP_MODE", "") == "play": where the handler goes on
AfterRollbackMut(mode) == "save_again"

AfterRollback(mode) == IF mode = "play" THEN "save_again" ELSE "done"

\* except IntegrityError: db.session.rollback(), then the check of BVP_MODE
rollback(w) ==
    /\ mf_pc[w] = "rollback"
    /\ session_sources' = [session_sources EXCEPT ![w] = {}]
    /\ session_values' = [session_values EXCEPT ![w] = {}]
    /\ mf_calls' = [mf_calls EXCEPT ![w] = Append(@, "rollback")]
    /\ mf_pc' = [mf_pc EXCEPT ![w] = AfterRollback(bvp_mode)]
    /\ mf_result' = [mf_result EXCEPT ![w] =
                        IF AfterRollback(bvp_mode) = "done" THEN "returned" ELSE @]
    /\ UNCHANGED <<varsLags, varsJobs, varsCheck, varsFilter, varsDb, mf_job, mf_source, mf_built, mf_forecasts,
                   values_before>>

\* where an IntegrityError raised by the overwriting save goes: out of make_forecasts
AfterOverwriteErrorMut == "rollback"

AfterOverwriteError == "done"

\* save_to_database(ts_value_forecasts, overwrite=True), inside the except clause.
\* It raises IntegrityError when a row refers to a data source that does not
\* exist, and may raise it at any object when another writer got in first.
save_again(w) ==
    /\ mf_pc[w] = "save_again"
    /\ ~Blocked(w, mf_forecasts[w])
    /\ LET objects == mf_forecasts[w]
       IN  \E failed \in 0..Len(objects) :
             /\ DanglingSource(w, objects) => failed > 0
             /\ IF failed = 0
                THEN /\ session_values' = [session_values EXCEPT ![w] =
                                              Merged(@, objects, Len(objects))]
                     /\ mf_calls' = [mf_calls EXCEPT ![w] = Append(@, "save_overwrite")]
                     /\ mf_result' = [mf_result EXCEPT ![w] = "returned"]
                     /\ mf_pc' = [mf_pc EXCEPT ![w] = "done"]
                ELSE /\ session_values' = [session_values EXCEPT ![w] =
                                              Merged(@, objects, failed - 1)]
                     /\ mf_calls' = [mf_calls EXCEPT ![w] =
                                        @ \o <<"save_overwrite", "IntegrityError">>]
                     /\ mf_result' = [mf_result EXCEPT ![w] =
                                         IF AfterOverwriteError = "done"
                                         THEN "IntegrityError" ELSE @]
                     /\ mf_pc' = [mf_pc EXCEPT ![w] = AfterOverwriteError]
    /\ UNCHANGED <<varsLags, varsJobs, varsCheck, varsFilter, varsDb, session_sources, mf_job, mf_source, mf_built,
                   mf_forecasts, values_before>>

\* the committed forecast data source, and the forecasts stored under it
ForecastSource == DataSource(Some(1), data_source_label, "script")

StoredForecasts ==
    {make_timed_value("Power", 1, dt, 0, 12, 1) : dt \in {0, FifteenMinutes}}

InitForecast ==
    /\ NoJobs
    /\ bvp_mode \in {"play", ""}
    /\ data_sources \in {{}, {ForecastSource}}
    /\ timed_values \in (IF data_sources = {} THEN {{}} ELSE SUBSET StoredForecasts)
    /\ workers = {1}
    /\ NoForecast
    /\ NoCheck
    /\ NoFilter
    /\ NoLags

\* the kwargs of the jobs the workers take
JobKwargs ==
    {JobCreate(asset_id, timed_value_type, horizon, 0, n * FifteenMinutes, "None") :
        asset_id \in {1, 2}, timed_value_type \in {"Power", "Price", "Solar"},
        horizon \in {12, 5}, n \in 1..MaxForecasts}

NextForecast ==
    \E w \in Workers :
        \/ \E job \in JobKwargs : StartJob(w, job)
        \/ get_data_source(w)
        \/ get_asset(w)
        \/ make_rolling_forecasts(w)
        \/ save_forecasts(w)
        \/ rollback(w)
        \/ save_again(w)

SpecForecast == InitForecast /\ [][NextForecast]_vars

-----------------------------------------------------------------------------
(* Two workers of the job queue, each with a database session of its own,  *)
(* taking make_forecasts jobs from the queue.                               *)

\* the number of jobs in the queue
MaxJobs == 3

\* a worker takes the job at the head of the queue and calls make_forecasts
DequeueJob(w) ==
    /\ w \in workers
    /\ mf_pc[w] = "idle"
    /\ mf_result[w] = "none"
    /\ redis_queue # <<>>
    /\ redis_queue' = Tail(redis_queue)
    /\ mf_job' = [mf_job EXCEPT ![w] = Some(Head(redis_queue))]
    /\ values_before' = [values_before EXCEPT ![w] = View(w)]
    /\ mf_pc' = [mf_pc EXCEPT ![w] = "get_data_source"]
    /\ UNCHANGED <<queue_before, cfj_args, cfj_jobs, cfj_result>>
    /\ UNCHANGED <<varsLags, varsCheck, varsFilter, varsDb, session_sources, session_values,
                   mf_source, mf_built, mf_forecasts, mf_calls, mf_result>>

\* the foreign key of the rows a transaction wrote holds when it commits
ForeignKeysHold(w) ==
    \A r \in session_values[w] :
        \E d \in data_sources \cup {Flushed(d) : d \in session_sources[w]} :
            d.id = Some(r.data_source_id)

\* the job has ended: the transaction of the session is committed when
\* make_forecasts returned and rolled back when it raised, and the worker is
\* free for the next job
FinishJob(w) ==
    /\ mf_pc[w] = "done"
    /\ IF mf_result[w] = "returned" /\ ForeignKeysHold(w)
       THEN /\ data_sources' = data_sources \cup {Flushed(d) : d \in session_sources[w]}
            /\ timed_values' = Over(timed_values, session_values[w])
       ELSE UNCHANGED <<data_sources, timed_values>>
    /\ session_sources' = [session_sources EXCEPT ![w] = {}]
    /\ session_values' = [session_values EXCEPT ![w] = {}]
    /\ mf_pc' = [mf_pc EXCEPT ![w] = "idle"]
    /\ mf_job' = [mf_job EXCEPT ![w] = None]
    /\ mf_source' = [mf_source EXCEPT ![w] = None]
    /\ mf_built' = [mf_built EXCEPT ![w] = FALSE]
    /\ mf_forecasts' = [mf_forecasts EXCEPT ![w] = <<>>]
    /\ mf_calls' = [mf_calls EXCEPT ![w] = <<>>]
    /\ mf_result' = [mf_result EXCEPT ![w] = "none"]
    /\ values_before' = [values_before EXCEPT ![w] = {}]
    /\ UNCHANGED <<varsLags, varsJobs, varsCheck, varsFilter, bvp_mode, workers>>

\* the jobs in the queue: forecasts of one quarter-hour of one asset
QueuedJobs ==
    {JobCreate(1, "Power", horizon, 0, FifteenMinutes, "None") : horizon \in {12, 72}}

InitWorkers ==
    /\ redis_queue \in [1..MaxJobs -> QueuedJobs]
    /\ queue_before = <<>>
    /\ cfj_args = None
    /\ cfj_jobs = <<>>
    /\ cfj_result = "none"
    /\ bvp_mode \in {"play", ""}
    /\ data_sources \in {{}, {ForecastSource}}
    /\ timed_values \in (IF data_sources = {} THEN {{}} ELSE {{}, StoredForecasts})
    /\ workers = Workers
    /\ NoForecast
    /\ NoCheck
    /\ NoFilter
    /\ NoLags

NextWorkers ==
    \E w \in Workers :
        \/ DequeueJob(w)
        \/ get_data_source(w)
        \/ get_asset(w)
        \/ make_rolling_forecasts(w)
        \/ save_forecasts(w)
        \/ rollback(w)
        \/ save_again(w)
        \/ FinishJob(w)

SpecWorkers == InitWorkers /\ [][NextWorkers]_vars

-----------------------------------------------------------------------------
(* check_data_availability *)

\* query windows start at 0..MaxTime and are 0..MaxTime long
MaxTime == 6

\* as_bvp_time(dt): the same instant in the timezone of the platform
as_bvp_time(dt) == dt

\* q: the values of the asset (the join with the asset table, filtered by its name)
AssetValues(rows, timed_value_type, asset_id) ==
    {r \in rows : r.timed_value_type = timed_value_type /\ r.asset_id = asset_id}

\* query_window[0] < first
TooEarly(query_start, first) == query_start < first

\* query_window[1] - horizon > last + timedelta(minutes=15)
TooLateMut(query_end, horizon, last) == query_end - horizon >= last + FifteenMinutes

TooLate(query_end, horizon, last) == query_end - horizon > last + FifteenMinutes

\* suggested_start = forecast_start + (first - query_window[0])
SuggestedStart(forecast_start, first, query_start) == forecast_start + (first - query_start)

\* suggested_end = forecast_end + (last - (query_window[1] - horizon))
SuggestedEndMut(forecast_end, last, query_end, horizon) == forecast_end + (last - query_end)

SuggestedEnd(forecast_end, last, query_end, horizon) ==
    forecast_end + (last - (query_end - horizon))

\* the outcome of check_data_availability: <<"returned", None>>, or the check
\* that raised NotEnoughDataException and the date its message suggests
CheckOutcome(q, forecast_start, forecast_end, query_start, query_end, horizon) ==
    IF q = {} THEN <<"no_data", None>>
    ELSE LET first == as_bvp_time(Min({r.datetime : r \in q}))
             last == as_bvp_time(Max({r.datetime : r \in q}))
         IN  IF TooEarly(query_start, first)
             THEN <<"start", Some(SuggestedStart(forecast_start, first, query_start))>>
             ELSE IF TooLate(query_end, horizon, last)
             THEN <<"end", Some(SuggestedEnd(forecast_end, last, query_end, horizon))>>
             ELSE <<"returned", None>>

\* the arguments of a call: the asset, the forecast period, the query window, the horizon
CdaType == The(cda_args)[1]
CdaAssetId == The(cda_args)[2]
CdaForecastStart == The(cda_args)[3]
CdaForecastEnd == The(cda_args)[4]
CdaQueryStart == The(cda_args)[5]
CdaQueryEnd == The(cda_args)[6]
CdaHorizon == The(cda_args)[7]

check_data_availability(timed_value_type, asset_id, forecast_start, forecast_end, query_start, query_end, horizon) ==
    /\ cda_result = "none"
    /\ cda_args' = Some(<<timed_value_type, asset_id, forecast_start, forecast_end,
                          query_start, query_end, horizon>>)
    /\ cda_before' = timed_values
    /\ LET q == AssetValues(timed_values, timed_value_type, asset_id)
           out == CheckOutcome(q, forecast_start, forecast_end, query_start, query_end, horizon)
       IN  /\ cda_result' = out[1]
           /\ cda_suggested' = out[2]
    /\ UNCHANGED <<varsLags, varsJobs, varsDb, varsForecast, varsFilter>>

\* the datetimes at which values of the asset may be stored
StoredTimes == {2, 4, 5}

InitCheck ==
    /\ NoJobs
    /\ bvp_mode = ""
    /\ data_sources = {ForecastSource}
    /\ \E times \in SUBSET StoredTimes, others \in SUBSET {TimedValue(1, "Price", 12, 0, 0, 1)} :
          timed_values = {TimedValue(1, "Power", 12, t, 0, 1) : t \in times} \cup others
    /\ workers = {}
    /\ NoForecast
    /\ NoCheck
    /\ NoFilter
    /\ NoLags

NextCheck ==
    \E query_start \in 0..MaxTime, length \in 0..MaxTime, horizon \in {-1, 0, 2},
       to_start \in {1, 2}, past_end \in {0, 1} :
        check_data_availability("Power", 1, query_start + to_start,
                                query_start + length + past_end,
                                query_start, query_start + length, horizon)

SpecCheck == InitCheck /\ [][NextCheck]_vars

-----------------------------------------------------------------------------
(* The query filters.  A query is the set of rows it selects. *)

\* the DataSource table has the ids 1..MaxSources
MaxSources == 3

\* if user_source_ids is not None and not isinstance(user_source_ids, list):
\* a single id becomes a list of one.  The argument is <<"None">>, <<"int", id>>
\* or <<"list", ids>>.
EnsureList(user_source_ids) ==
    IF user_source_ids[1] = "int" THEN <<"list", <<user_source_ids[2]>>>>
    ELSE user_source_ids

\* if user_source_ids: a list that is not empty
Truthy(user_source_ids) == user_source_ids[1] = "list" /\ Len(user_source_ids[2]) > 0

Range(seq) == {seq[i] : i \in 1..Len(seq)}

\* the ids of the user sources that are not in the list
IgnorableUserSourceIdsMut(sources, ids) ==
    {d.id : d \in {d \in sources : The(d.id) \notin Range(ids)}}

IgnorableUserSourceIds(sources, ids) ==
    {d.id : d \in {d \in sources : d.type = "user" /\ The(d.id) \notin Range(ids)}}

add_user_source_filter(query, user_source_ids) ==
    LET ids == EnsureList(user_source_ids)
    IN  IF Truthy(ids)
        THEN {r \in query :
                Some(r.data_source_id) \notin IgnorableUserSourceIds(data_sources, ids[2])}
        ELSE query

\* cls.datetime + asset_class.event_resolution - cls.horizon <= belief_time
BeliefTimeFilter(r, event_resolution, belief_time) ==
    r.datetime + event_resolution - r.horizon <= belief_time

\* bound - (end - (cls.datetime + asset_class.event_resolution)): the horizon a
\* belief formed at end - bound has of the event of row r
FixedHorizonMut(bound, end, r, event_resolution) == bound - (end - r.datetime)

FixedHorizon(bound, end, r, event_resolution) ==
    bound - (end - (r.datetime + event_resolution))

\* cls.horizon >= short_horizon
RollingShortMut(r, short_horizon) == r.horizon > short_horizon

RollingShort(r, short_horizon) == r.horizon >= short_horizon

\* the filters on the horizon of row r.  With rolling=False and end=None the
\* horizon is compared with an expression over NULL, which no row passes.
HorizonWindowFilter(r, end, event_resolution, short_horizon, long_horizon, rolling) ==
    IF short_horizon # None /\ long_horizon # None /\ short_horizon = long_horizon
    THEN IF rolling
         THEN r.horizon = The(short_horizon)
         ELSE /\ end # None
              /\ r.horizon = FixedHorizon(The(short_horizon), The(end), r, event_resolution)
    ELSE /\ short_horizon # None =>
              IF rolling
              THEN RollingShort(r, The(short_horizon))
              ELSE /\ end # None
                   /\ r.horizon >= FixedHorizon(The(short_horizon), The(end), r, event_resolution)
         /\ long_horizon # None =>
              IF rolling
              THEN r.horizon <= The(long_horizon)
              ELSE /\ end # None
                   /\ r.horizon <= FixedHorizon(The(long_horizon), The(end), r, event_resolution)

add_horizon_filter(query, end, event_resolution, short_horizon, long_horizon, rolling, belief_time) ==
    {r \in query :
        /\ belief_time # None => BeliefTimeFilter(r, event_resolution, The(belief_time))
        /\ HorizonWindowFilter(r, end, event_resolution, short_horizon, long_horizon, rolling)}

\* cls.datetime > start - asset_class.event_resolution
StartsAfterMut(r, start, event_resolution) == r.datetime >= start

StartsAfter(r, start, event_resolution) == r.datetime > start - event_resolution

\* the rows of the named asset, joined with their data source, in the time window
create_beliefs_query(rows, sources, timed_value_type, asset_id, start, end, event_resolution) ==
    {r \in rows :
        /\ \E d \in sources : d.id = Some(r.data_source_id)
        /\ r.timed_value_type = timed_value_type
        /\ r.asset_id = asset_id
        /\ start # None => StartsAfter(r, The(start), event_resolution)
        /\ end # None => r.datetime < The(end)}

\* the arguments of the filter that was called
FltName == The(flt_call)[1]
FltArg(i) == The(flt_call)[i + 1]

CallUserSourceFilter(user_source_ids) ==
    /\ flt_call = None
    /\ flt_call' = Some(<<"add_user_source_filter", user_source_ids>>)
    /\ flt_query' = timed_values
    /\ flt_result' = add_user_source_filter(timed_values, user_source_ids)
    /\ UNCHANGED <<varsLags, varsJobs, varsDb, varsForecast, varsCheck>>

CallHorizonFilter(end, event_resolution, short_horizon, long_horizon, rolling, belief_time) ==
    /\ flt_call = None
    /\ flt_call' = Some(<<"add_horizon_filter", end, event_resolution, short_horizon,
                          long_horizon, rolling, belief_time>>)
    /\ flt_query' = timed_values
    /\ flt_result' = add_horizon_filter(timed_values, end, event_resolution, short_horizon,
                                        long_horizon, rolling, belief_time)
    /\ UNCHANGED <<varsLags, varsJobs, varsDb, varsForecast, varsCheck>>

CallBeliefsQuery(timed_value_type, asset_id, start, end, event_resolution) ==
    /\ flt_call = None
    /\ flt_call' = Some(<<"create_beliefs_query", timed_value_type, asset_id, start, end,
                          event_resolution>>)
    /\ flt_query' = timed_values
    /\ flt_result' = create_beliefs_query(timed_values, data_sources, timed_value_type,
                                          asset_id, start, end, event_resolution)
    /\ UNCHANGED <<varsLags, varsJobs, varsDb, varsForecast, varsCheck>>

\* the datetimes and horizons of the stored beliefs, and the times and horizons asked for
BeliefTimes == {0, 3, 6}
BeliefHorizons == {-3, 0, 3, 6}
OptionalTimes == {None} \cup {Some(t) : t \in {3, 6, 9}}
OptionalHorizons == {None} \cup {Some(h) : h \in {-3, 0, 3}}
QueryTimes == {None} \cup {Some(t) : t \in {2, 3, 6}}

\* one belief per datetime, horizon and data source
AllBeliefs ==
    {TimedValue(1, "Power", h, dt, 0, src) :
        h \in BeliefHorizons, dt \in BeliefTimes, src \in 1..MaxSources}

\* the beliefs about a second asset
OtherBeliefs == {TimedValue(2, "Power", 0, dt, 0, 1) : dt \in BeliefTimes}

InitFilter ==
    /\ NoJobs
    /\ bvp_mode = ""
    /\ \E types \in [1..MaxSources -> {"user", "script"}] :
          data_sources = {DataSource(Some(i), "source", types[i]) : i \in 1..MaxSources}
    /\ timed_values \in {AllBeliefs \cup OtherBeliefs, {r \in AllBeliefs : r.data_source_id = 1}}
    /\ workers = {}
    /\ NoForecast
    /\ NoCheck
    /\ NoFilter
    /\ NoLags

UserSourceIds ==
    {<<"None">>} \cup {<<"int", i>> : i \in 0..MaxSources}
        \cup {<<"list", ids>> : ids \in SeqsUpTo(1..MaxSources, 2)}

NextFilter ==
    \/ \E user_source_ids \in UserSourceIds : CallUserSourceFilter(user_source_ids)
    \/ \E end \in OptionalTimes, event_resolution \in {1, FifteenMinutes},
          short_horizon \in OptionalHorizons, long_horizon \in OptionalHorizons,
          rolling \in BOOLEAN, belief_time \in OptionalTimes :
            CallHorizonFilter(end, event_resolution, short_horizon, long_horizon,
                              rolling, belief_time)
    \/ \E asset_id \in {1, 2}, start \in QueryTimes, end \in QueryTimes,
          event_resolution \in {1, FifteenMinutes} :
            CallBeliefsQuery("Power", asset_id, start, end, event_resolution)

SpecFilter == InitFilter /\ [][NextFilter]_vars

-----------------------------------------------------------------------------
(* create_lags and get_query_window                                         *)

\* the largest n_lags asked for
MaxLags == 2

\* timedelta(days=1), in steps of five minutes
OneDay == 288

\* 1 + (horizon - resolution) // lag_period
NumberOfNanLags(horizon, resolution, lag_period) ==
    1 + ((horizon - resolution) \div lag_period)

\* for L in range(n_lags): lags.append((L + number_of_nan_lags) * lag_period)
LagSeries(n_lags, number_of_nan_lags, lag_period) ==
    [i \in 1..n_lags |-> ((i - 1) + number_of_nan_lags) * lag_period]

\* hasattr(generic_asset_type, "daily_seasonality") and its value: the
\* attribute is an Optional boolean, None when the asset type has none
DailySeasonality(generic_asset_type) ==
    generic_asset_type # None /\ The(generic_asset_type)

\* the list as it is before the double entries are removed
LagsAppended(n_lags, generic_asset_type, horizon, resolution) ==
    (IF horizon < 0 THEN <<0>> ELSE <<>>)
        \o LagSeries(n_lags, NumberOfNanLags(horizon, resolution, resolution), resolution)
        \o (IF DailySeasonality(generic_asset_type)
            THEN LagSeries(n_lags, NumberOfNanLags(horizon, resolution, OneDay), OneDay)
            ELSE <<>>)

RECURSIVE Orderings(_)
Orderings(S) ==
    IF S = {} THEN {<<>>}
    ELSE UNION {{<<x>> \o rest : rest \in Orderings(S \ {x})} : x \in S}

\* list(set(lags)): the order of the elements of a set is not specified
ListOfSetMut(lags) == {lags}

ListOfSet(lags) == Orderings(Range(lags))

create_lags(n_lags, generic_asset_type, horizon, resolution) ==
    /\ lags_args = None
    /\ lags_args' = Some(<<n_lags, generic_asset_type, horizon, resolution>>)
    /\ lags_list' \in ListOfSet(LagsAppended(n_lags, generic_asset_type, horizon, resolution))
    /\ UNCHANGED <<window_args, query_window>>
    /\ UNCHANGED <<varsJobs, varsDb, varsForecast, varsCheck, varsFilter>>

QueryStartMut(training_start, lags) ==
    IF lags = <<>> THEN training_start ELSE training_start - Min(Range(lags))

QueryStart(training_start, lags) ==
    IF lags = <<>> THEN training_start ELSE training_start - Max(Range(lags))

\* called with the list create_lags returned
get_query_window(training_start, end) ==
    /\ lags_args # None
    /\ window_args = None
    /\ window_args' = Some(<<training_start, end>>)
    /\ query_window' = Some(<<QueryStart(training_start, lags_list), end>>)
    /\ UNCHANGED <<lags_args, lags_list>>
    /\ UNCHANGED <<varsJobs, varsDb, varsForecast, varsCheck, varsFilter>>

\* the horizons and resolutions tried: negative, zero and positive horizons,
\* multiples of the resolution and not, shorter and longer than a day
LagHorizons == {-4, -3, -1, 0, 2, 3, 5, 288, 290}
LagResolutions == {1, FifteenMinutes}
AssetTypes == {None, Some(FALSE), Some(TRUE)}
TrainingStarts == {0, 600}

InitLags ==
    /\ NoJobs
    /\ NoDb
    /\ NoForecast
    /\ NoCheck
    /\ NoFilter
    /\ NoLags

NextLags ==
    \/ \E n_lags \in 0..MaxLags, generic_asset_type \in AssetTypes,
          horizon \in LagHorizons, resolution \in LagResolutions :
            create_lags(n_lags, generic_asset_type, horizon, resolution)
    \/ \E training_start \in TrainingStarts, period \in {1, MaxTime} :
            get_query_window(training_start, training_start + period)

SpecLags == InitLags /\ [][NextLags]_vars

-----------------------------------------------------------------------------
(* Properties of create_forecasting_jobs *)

TheArgs == The(cfj_args)
GivenHorizons == The(TheArgs.horizons)

\* C1: with a non-None list of horizons create_forecasting_jobs returns one job
\* per horizon, in the order of the list; the job for horizon h has
\* start = start_of_roll + h and end = end_of_roll + h (so its window is as long
\* as the rolling window) and carries asset_id, timed_value_type, h and
\* custom_model_params unchanged.
C1_JobPerHorizon ==
    (cfj_args # None /\ TheArgs.horizons # None) =>
        /\ cfj_result = "returned"
        /\ Len(cfj_jobs) = Len(GivenHorizons)
        /\ \A i \in 1..Len(GivenHorizons) :
            LET h == GivenHorizons[i]
                job == cfj_jobs[i]
            IN  /\ job.func = "make_forecasts"
                /\ job.horizon = h
                /\ job.start = TheArgs.start_of_roll + h
                /\ job.end = TheArgs.end_of_roll + h
                /\ job.end - job.start = TheArgs.end_of_roll - TheArgs.start_of_roll
                /\ job.asset_id = TheArgs.asset_id
                /\ job.timed_value_type = TheArgs.timed_value_type
                /\ job.custom_model_params = TheArgs.custom_model_params

\* a call with two different horizons, one of them negative, has returned
C1_Witness ==
    /\ cfj_args # None
    /\ TheArgs.horizons = Some(<<4, -1>>)
    /\ TheArgs.start_of_roll = 1
    /\ cfj_result = "returned"
    /\ Len(cfj_jobs) = 2

\* C6: with enqueue=True the jobs added to the queue are exactly the returned
\* jobs, each once and in the same order (behind what the queue held before);
\* with enqueue=False the queue is left unchanged.  Either way the returned
\* jobs are the same: for given horizons, one job per horizon in list order.
C6_EnqueuedAreReturned ==
    (cfj_args # None /\ cfj_result = "returned") =>
        /\ TheArgs.enqueue => redis_queue = queue_before \o cfj_jobs
        /\ ~TheArgs.enqueue => redis_queue = queue_before
        /\ TheArgs.horizons # None =>
              /\ Len(cfj_jobs) = Len(GivenHorizons)
              /\ \A i \in 1..Len(cfj_jobs) : cfj_jobs[i].horizon = GivenHorizons[i]

\* a call with enqueue=False and two horizons has returned, the queue holding a job
C6_Witness ==
    /\ cfj_args # None
    /\ ~TheArgs.enqueue
    /\ cfj_result = "returned"
    /\ Len(cfj_jobs) = 2
    /\ Len(redis_queue) = 1

\* C7: with horizons=None and resolution=None create_forecasting_jobs raises
\* before any job is created: no job is created or enqueued, the queue is unchanged.
C7_NoHorizonsNoResolutionRaises ==
    (cfj_args # None /\ TheArgs.horizons = None /\ TheArgs.resolution = None) =>
        /\ cfj_result = "Exception"
        /\ cfj_jobs = <<>>
        /\ redis_queue = queue_before

\* such a call was made with enqueue=True on a non-empty queue, and raised
C7_Witness ==
    /\ cfj_args # None
    /\ TheArgs.horizons = None
    /\ TheArgs.resolution = None
    /\ TheArgs.enqueue
    /\ cfj_result = "Exception"
    /\ Len(redis_queue) = 1

-----------------------------------------------------------------------------
(* Properties of make_forecasts *)

IsPrefix(s, t) == Len(s) <= Len(t) /\ \A i \in 1..Len(s) : s[i] = t[i]

\* the first save of worker w raised IntegrityError
SaveRaised(w) == Len(mf_calls[w]) >= 2 /\ mf_calls[w][2] = "IntegrityError"

PlayRetry == <<"save", "IntegrityError", "rollback", "save_overwrite">>

\* C2: in play mode, after the save raised IntegrityError the session is rolled
\* back once and then the same forecasts are saved once more with overwrite=True
\* (the rollback first); an IntegrityError of the overwriting save is not caught:
\* it leaves make_forecasts and nothing is retried.
C2_PlayRollbackThenOverwriteOnce ==
    \A w \in Workers :
        (bvp_mode = "play" /\ SaveRaised(w)) =>
            /\ IsPrefix(mf_calls[w], PlayRetry \o <<"IntegrityError">>)
            /\ mf_pc[w] = "done" =>
                \/ /\ mf_calls[w] = PlayRetry
                   /\ mf_result[w] = "returned"
                   /\ \A i \in 1..Len(mf_forecasts[w]) : mf_forecasts[w][i] \in View(w)
                \/ /\ mf_calls[w] = PlayRetry \o <<"IntegrityError">>
                   /\ mf_result[w] = "IntegrityError"

\* in play mode a job of two forecasts was rolled back and saved again over a stored row
C2_Witness ==
    /\ bvp_mode = "play"
    /\ mf_pc[1] = "done"
    /\ mf_calls[1] = PlayRetry
    /\ Len(mf_forecasts[1]) = 2
    /\ View(1) # values_before[1]

\* C3: outside play mode, after the save raised IntegrityError the session is
\* rolled back, nothing is saved again, make_forecasts returns normally and the
\* stored timed values are as they were before the job ran.
C3_NoRetryOutsidePlayMode ==
    \A w \in Workers :
        (bvp_mode # "play" /\ SaveRaised(w) /\ mf_pc[w] # "rollback") =>
            /\ mf_calls[w] = <<"save", "IntegrityError", "rollback">>
            /\ mf_pc[w] = "done"
            /\ mf_result[w] = "returned"
            /\ session_values[w] = {}
            /\ View(w) = values_before[w]

\* outside play mode a job whose second forecast was in conflict has returned
C3_Witness ==
    /\ bvp_mode # "play"
    /\ mf_pc[1] = "done"
    /\ SaveRaised(1)
    /\ Len(mf_forecasts[1]) = 2
    /\ FirstConflict(values_before[1], mf_forecasts[1]) = 2
    /\ mf_result[1] = "returned"

\* the job of worker w has a horizon that is not supported
BadHorizon(w) == mf_job[w] # None /\ Job(w).horizon \notin supported_horizons

\* no model was built, no forecast made and nothing saved by worker w
NothingMade(w) ==
    /\ ~mf_built[w]
    /\ mf_forecasts[w] = <<>>
    /\ mf_calls[w] = <<>>
    /\ session_values[w] = {}
    /\ View(w) = values_before[w]

\* C4 as stated: with a horizon that is not supported make_forecasts raises
\* InvalidHorizonException before a model is built or a forecast is made or saved.
C4_AlwaysInvalidHorizonException ==
    \A w \in Workers :
        (BadHorizon(w) /\ mf_pc[w] = "done") =>
            mf_result[w] = "InvalidHorizonException" /\ NothingMade(w)

\* C4: with a horizon that is not supported make_forecasts raises before a
\* model is built or a forecast is made or saved; what it raises is
\* InvalidHorizonException when get_data_source and get_asset returned, and the
\* exception of get_data_source or get_asset otherwise.
C4_RaisesBeforeModelIsBuilt ==
    \A w \in Workers :
        BadHorizon(w) =>
            /\ NothingMade(w)
            /\ mf_pc[w] = "done" =>
                IF /\ mf_source[w] # None
                   /\ <<Job(w).timed_value_type, Job(w).asset_id>> \in ExistingAssets
                THEN mf_result[w] = "InvalidHorizonException"
                ELSE mf_result[w] \in {"Exception", "MultipleResultsFound"}

\* a job for an existing asset with an unsupported horizon raised InvalidHorizonException
C4_Witness ==
    /\ BadHorizon(1)
    /\ mf_pc[1] = "done"
    /\ mf_result[1] = "InvalidHorizonException"
    /\ timed_values # {}

-----------------------------------------------------------------------------
(* Properties of check_data_availability *)

CdaValues ==
    {r \in cda_before : r.timed_value_type = CdaType /\ r.asset_id = CdaAssetId}
CdaFirst == Min({r.datetime : r \in CdaValues})
CdaLast == Max({r.datetime : r \in CdaValues})

\* C5: check_data_availability raises NotEnoughDataException exactly when the
\* asset has no stored value, or else query_window[0] is before the first stored
\* datetime, or else query_window[1] - horizon is after the last stored datetime
\* plus 15 minutes (the checks made in this order); otherwise it returns; it
\* never changes the stored data.
C5_RaisesIffDataMissing ==
    cda_args # None =>
        /\ cda_result =
              IF CdaValues = {} THEN "no_data"
              ELSE IF CdaQueryStart < CdaFirst THEN "start"
              ELSE IF CdaQueryEnd - CdaHorizon > CdaLast + FifteenMinutes THEN "end"
              ELSE "returned"
        /\ timed_values = cda_before

\* the call returned although the query ends exactly 15 minutes after the last
\* stored value, with a value of another asset stored before the query starts
C5_Witness ==
    /\ cda_args # None
    /\ cda_result = "returned"
    /\ CdaQueryEnd - CdaHorizon = CdaLast + FifteenMinutes
    /\ CdaQueryStart = CdaFirst
    /\ \E r \in cda_before : r.timed_value_type = "Price" /\ r.datetime < CdaQueryStart

-----------------------------------------------------------------------------
(* Properties of the query filters *)

\* the data source of a row
SourceOf(r) == CHOOSE d \in data_sources : d.id = Some(r.data_source_id)

\* the ids given to add_user_source_filter, a single id as a list of one
GivenIds ==
    IF FltArg(1)[1] = "int" THEN {FltArg(1)[2]}
    ELSE IF FltArg(1)[1] = "list" THEN Range(FltArg(1)[2])
    ELSE {}

\* C8: with a single id or a non-empty list of ids add_user_source_filter keeps
\* a row exactly if its data source is not of type "user" or is in the list, so
\* no row of a non-user source is removed; with None or an empty list the query
\* is returned unchanged.
C8_UserSourceFilter ==
    (flt_call # None /\ FltName = "add_user_source_filter") =>
        IF GivenIds # {}
        THEN /\ flt_result \subseteq flt_query
             /\ \A r \in flt_query :
                   r \in flt_result <=>
                      (SourceOf(r).type # "user" \/ r.data_source_id \in GivenIds)
        ELSE flt_result = flt_query

\* the filter removed the rows of a user source, kept those of the user source in
\* the list and kept those of a script source that is not in the list
C8_Witness ==
    /\ flt_call # None
    /\ FltName = "add_user_source_filter"
    /\ \E r \in flt_query : r \notin flt_result
    /\ \E r \in flt_result : SourceOf(r).type = "user"
    /\ \E r \in flt_result : SourceOf(r).type # "user" /\ r.data_source_id \notin GivenIds

\* the arguments of add_horizon_filter
FltEnd == FltArg(1)
FltResolution == FltArg(2)
FltShort == FltArg(3)
FltLong == FltArg(4)
FltRolling == FltArg(5)
FltBeliefTime == FltArg(6)

\* the belief time of a row: the end of its event minus its horizon
BeliefTimeOf(r) == r.datetime + FltResolution - r.horizon

BeliefTimeCondition(r) == FltBeliefTime = None \/ BeliefTimeOf(r) <= The(FltBeliefTime)

\* C9: with rolling=False (and an end) a row passes the horizon filters exactly
\* if its belief time lies in [end - long_horizon, end - short_horizon], a None
\* bound imposing nothing; with short_horizon = long_horizon every selected row
\* has the belief time end - short_horizon, that is the horizon
\* short_horizon - (end - (datetime + event_resolution)).
C9_FixedBeliefTime ==
    (flt_call # None /\ FltName = "add_horizon_filter" /\ ~FltRolling /\ FltEnd # None) =>
        /\ flt_result \subseteq flt_query
        /\ \A r \in flt_query :
              r \in flt_result <=>
                 /\ BeliefTimeCondition(r)
                 /\ FltLong = None \/ The(FltEnd) - The(FltLong) <= BeliefTimeOf(r)
                 /\ FltShort = None \/ BeliefTimeOf(r) <= The(FltEnd) - The(FltShort)
        /\ (FltShort # None /\ FltShort = FltLong) =>
              \A r \in flt_result :
                 /\ BeliefTimeOf(r) = The(FltEnd) - The(FltShort)
                 /\ r.horizon = The(FltShort) - (The(FltEnd) - (r.datetime + FltResolution))

\* with equal bounds and rolling=False beliefs about different events were
\* selected, with different horizons
C9_Witness ==
    /\ flt_call # None
    /\ FltName = "add_horizon_filter"
    /\ ~FltRolling
    /\ FltEnd # None
    /\ FltShort # None
    /\ FltShort = FltLong
    /\ FltBeliefTime = None
    /\ \E r1, r2 \in flt_result : r1.datetime # r2.datetime /\ r1.horizon # r2.horizon
    /\ flt_result # flt_query

\* the arguments of a call of create_beliefs_query
QryAssetId == FltArg(2)
QryStart == FltArg(3)
QryEnd == FltArg(4)
QryResolution == FltArg(5)

\* C11: create_beliefs_query selects a row of the named asset exactly when its
\* datetime is later than start minus the event resolution (or start is None)
\* and earlier than end (or end is None). In a window whose end is not before
\* its start, an event that starts before start and ends after it is selected;
\* an event that starts exactly at end is never selected; rows of other assets
\* are never selected.
C11_BeliefsQueryWindow ==
    (flt_call # None /\ FltName = "create_beliefs_query") =>
        /\ flt_result \subseteq flt_query
        /\ \A r \in flt_query :
              /\ r.asset_id # QryAssetId => r \notin flt_result
              /\ r.asset_id = QryAssetId =>
                    /\ r \in flt_result <=>
                          /\ QryStart = None \/ r.datetime > The(QryStart) - QryResolution
                          /\ QryEnd = None \/ r.datetime < The(QryEnd)
                    /\ (/\ QryStart # None
                        /\ r.datetime < The(QryStart)
                        /\ r.datetime + QryResolution > The(QryStart)
                        /\ QryEnd = None \/ The(QryEnd) >= The(QryStart))
                          => r \in flt_result
                    /\ (QryEnd # None /\ r.datetime = The(QryEnd)) => r \notin flt_result
                    /\ (QryStart = None /\ QryEnd = None) => r \in flt_result

C11_Witness ==
    /\ flt_call = Some(<<"create_beliefs_query", "Power", 1, Some(2), Some(6),
                         FifteenMinutes>>)
    /\ \E r \in flt_result : r.datetime = 0
    /\ \E r \in flt_query : r.asset_id = 1 /\ r.datetime = 6 /\ r \notin flt_result
    /\ \E r \in flt_query : r.asset_id = 2

\* C10: with rolling=True a row is selected exactly if its horizon is at least
\* short_horizon and at most long_horizon (a None bound imposing nothing) and,
\* with a belief_time, datetime + event_resolution - horizon <= belief_time;
\* end plays no part, and with both bounds and belief_time None the query is
\* returned unchanged.
C10_RollingHorizon ==
    (flt_call # None /\ FltName = "add_horizon_filter" /\ FltRolling) =>
        /\ flt_result \subseteq flt_query
        /\ \A r \in flt_query :
              r \in flt_result <=>
                 /\ FltShort = None \/ r.horizon >= The(FltShort)
                 /\ FltLong = None \/ r.horizon <= The(FltLong)
                 /\ FltBeliefTime = None \/
                       r.datetime + FltResolution - r.horizon <= The(FltBeliefTime)
        /\ (FltShort = None /\ FltLong = None /\ FltBeliefTime = None) =>
              flt_result = flt_query

\* with rolling=True and no end, two different bounds and a belief time selected
\* some rows and left out others
C10_Witness ==
    /\ flt_call # None
    /\ FltName = "add_horizon_filter"
    /\ FltRolling
    /\ FltEnd = None
    /\ FltShort = Some(0)
    /\ FltLong = Some(3)
    /\ FltBeliefTime = Some(3)
    /\ flt_result # {}
    /\ \E r \in flt_query : r \notin flt_result /\ r.horizon = 3

\* the stored values of the asset when check_data_availability was called
CdaStored == {r \in cda_before : r.timed_value_type = CdaType /\ r.asset_id = CdaAssetId}

\* C14: the suggested period passes the check that failed. After a failed
\* start check, moving forecast_start and query_window[0] by
\* suggested_start - forecast_start puts query_window[0] on the first stored
\* datetime and the start check passes; after a failed end check, moving
\* forecast_end and query_window[1] by suggested_end - forecast_end puts
\* query_window[1] - horizon on the last stored datetime and the end check
\* passes.
C14_SuggestedPeriodPasses ==
    /\ cda_result = "start" =>
          LET shift == The(cda_suggested) - CdaForecastStart
              first == CHOOSE t \in {r.datetime : r \in CdaStored} :
                          \A r \in CdaStored : t <= r.datetime
          IN  /\ cda_suggested # None
              /\ CdaQueryStart + shift = first
              /\ ~(CdaQueryStart + shift < first)
              /\ CheckOutcome(CdaStored, CdaForecastStart + shift, CdaForecastEnd,
                              CdaQueryStart + shift, CdaQueryEnd, CdaHorizon)[1] # "start"
    /\ cda_result = "end" =>
          LET shift == The(cda_suggested) - CdaForecastEnd
              last == CHOOSE t \in {r.datetime : r \in CdaStored} :
                         \A r \in CdaStored : t >= r.datetime
          IN  /\ cda_suggested # None
              /\ (CdaQueryEnd + shift) - CdaHorizon = last
              /\ ~((CdaQueryEnd + shift) - CdaHorizon > last + FifteenMinutes)
              /\ CheckOutcome(CdaStored, CdaForecastStart, CdaForecastEnd + shift,
                              CdaQueryStart, CdaQueryEnd + shift, CdaHorizon)[1] # "end"

\* a failed end check with a horizon that is not zero
C14_Witness ==
    /\ cda_result = "end"
    /\ CdaHorizon = 2
    /\ cda_suggested # None
    /\ The(cda_suggested) < CdaForecastEnd

-----------------------------------------------------------------------------
(* Properties of create_lags and get_query_window                           *)

\* the arguments of the call of create_lags
LagsN == The(lags_args)[1]
LagsAssetType == The(lags_args)[2]
LagsHorizon == The(lags_args)[3]
LagsResolution == The(lags_args)[4]

\* floor(a / b) for b > 0: the integer q with q * b <= a < (q + 1) * b
Floor(a, b) == CHOOSE q \in -1000..1000 : q * b <= a /\ a < (q + 1) * b

\* the n consecutive multiples of period from 1 + floor((horizon - resolution) / period)
Multiples(n, horizon, resolution, period) ==
    LET first == 1 + Floor(horizon - resolution, period)
    IN  {k * period : k \in first..(first + n - 1)}

\* C12: the list create_lags returns has no double entries and holds exactly
\* the n_lags consecutive multiples of the resolution from
\* 1 + floor((horizon - resolution) / resolution), the zero lag added if and
\* only if horizon < 0, and, only for an asset type with daily seasonality,
\* the n_lags consecutive multiples of one day from
\* 1 + floor((horizon - resolution) / one day).
C12_LagsAreTheMultiples ==
    lags_args # None =>
        /\ \A i, j \in 1..Len(lags_list) : i # j => lags_list[i] # lags_list[j]
        /\ {lags_list[i] : i \in 1..Len(lags_list)} =
              Multiples(LagsN, LagsHorizon, LagsResolution, LagsResolution)
                \cup (IF LagsHorizon < 0 THEN {0} ELSE {})
                \cup (IF LagsAssetType = {TRUE}
                      THEN Multiples(LagsN, LagsHorizon, LagsResolution, OneDay)
                      ELSE {})

\* horizon -1 with resolution 3 and daily seasonality: the zero lag is appended
\* three times and returned once
C12_Witness ==
    /\ lags_args = Some(<<2, Some(TRUE), -1, FifteenMinutes>>)
    /\ Len(lags_list) = 3
    /\ {lags_list[i] : i \in 1..Len(lags_list)} = {-3, 0, OneDay}

\* C13: get_query_window returns (training_start - max(lags), end), and
\* (training_start, end) for an empty list; for a list create_lags returned
\* for n_lags >= 1 the window starts no later than training_start, ends at
\* end and starts no later than training_start - L for every lag L.
C13_QueryWindow ==
    window_args # None =>
        LET training_start == The(window_args)[1]
            end == The(window_args)[2]
            lags == {lags_list[i] : i \in 1..Len(lags_list)}
            query_start == The(query_window)[1]
            query_end == The(query_window)[2]
        IN  /\ query_window # None
            /\ query_end = end
            /\ lags = {} => query_start = training_start
            /\ lags # {} =>
                  \E L \in lags : /\ \A other \in lags : other <= L
                                   /\ query_start = training_start - L
            /\ LagsN >= 1 =>
                  /\ query_start <= training_start
                  /\ query_end >= end
                  /\ \A L \in lags : query_start <= training_start - L

\* a list with lags of different sizes, one of them negative
C13_Witness ==
    /\ lags_args = Some(<<2, Some(TRUE), -4, FifteenMinutes>>)
    /\ window_args = Some(<<600, 601>>)
    /\ query_window = Some(<<600 - OneDay, 601>>)
    /\ \E i \in 1..Len(lags_list) : lags_list[i] < 0

\* C15: every lag create_lags returns for n_lags >= 1 is at least the horizon.
C15_LagsAtLeastHorizon ==
    (lags_args # None /\ LagsN >= 1) =>
        \A i \in 1..Len(lags_list) : lags_list[i] >= LagsHorizon

-----------------------------------------------------------------------------
(* Properties of the data source of the forecasts                           *)

\* the committed data sources with the label of the forecasts
ForecastSources == {d \in data_sources : d.label = "forecast by Seita"}

\* C16: after any sequence of make_forecasts jobs, interleaved ones included,
\* the database holds at most one DataSource with the forecast label.
C16_AtMostOneForecastSource == Cardinality(ForecastSources) <= 1

\* the row refers to a data source among `sources` that has the forecast label
HasForecastSource(r, sources) ==
    \E d \in sources : d.id = {r.data_source_id} /\ d.label = "forecast by Seita"

====
